---- MODULE Spec2Model ----
(***************************************************************************)
(* granter: composable permission checks.                                  *)
(*                                                                         *)
(* A permission unit is a node of a tree: a leaf wraps a user check, a     *)
(* composite is produced by and / or / andParallel / orParallel / not and  *)
(* captures its children in `permissions`.  One evaluation of the root is  *)
(* modelled on the JavaScript event loop: an invocation runs the           *)
(* synchronous part of an async function up to its first await (Invoke),   *)
(* a pending leaf settles at an arbitrary later moment (Settle) and a      *)
(* suspended composite resumes once what it awaits has settled (Resume).   *)
(*                                                                         *)
(* Specifications: Spec (one plain call of a unit), SpecExplain (a plain   *)
(* call followed by explain), SpecFilter (filter over a candidate array),  *)
(* SpecLaws (two units evaluated side by side), SpecThrow (orThrow and     *)
(* authorize), SpecBind (calls through withContext), SpecAll (every way of *)
(* invoking a unit), SpecAbility (withAbility), SpecTypes (the resource    *)
(* type of a composite), SpecInterleave (two evaluations in flight         *)
(* together), SpecFair and SpecFairPlain (evaluation under fair            *)
(* scheduling of the event loop).                                          *)
(***************************************************************************)
EXTENDS Integers, Sequences, FiniteSets, TLC

\* ------------------------------------------------------------------ bounds
\* Largest number of units (leaves and composites) in the evaluated tree.
MaxNodes == 4

\* Number of distinct plain-object resources a caller may pass.
MaxObjects == 1

\* Largest length of the candidate array given to filter.
MaxCandidates == 2

\* Largest number of calls made through one context binding.
MaxCalls == 2

\* Largest number of units handed to one operator when its type is computed.
MaxChildren == 3

\* Largest number of units in a tree evaluated under fair scheduling.
MaxFairNodes == 3

\* ------------------------------------------------------------ static tree
VARIABLES
  permissions,  \* node -> sequence of child nodes (the captured ...permissions)
  kind,         \* node -> operator, or the behaviour of a leaf's check
  \* ---------------------------------------------------- evaluation state
  pc,           \* "idle" before the top-level call, "called" after it
  status,       \* node -> "idle" | "pending" | "resolved" | "rejected"
  value,        \* node -> boolean the node's promise resolved with
  error,        \* node -> leaf whose exception the node rejected with, 0 if none
  calls,        \* node -> number of invocations of the node's check
  idx,          \* and-node -> position of the child its loop is at
  clock,        \* counter of invocation and first-await events
  startedAt,    \* node -> clock value at which its check was invoked, 0 if never
  awaitedAt,    \* composite -> clock value at which it first suspended, 0 if never
  \* ------------------------------------------- throwing invocation surface
  unit,         \* the unit orThrow / authorize is applied to: name, typing, check
  resource,     \* the resource the caller means to check (undefined if none)
  override,     \* the error override the caller gives (undefined if none)
  outcome,      \* how the call settled and what it threw
  factoryCalls, \* number of times a function taken as error factory was called
  checkedWith,  \* the resources the unit's check was invoked with, in order
  \* ------------------------------------------------------------- filter
  resources,    \* the candidate array given to filter (ids of resources)
  kept,         \* the array filter resolved with
  \* ------------------------------------------------------------ explain
  onExplain,    \* node -> whether its check was handed an explain callback
  reported,     \* node -> the explanation nodes pushed to that callback
  plain,        \* the evaluation state the plain call left behind
  xstatus,      \* node -> where unit.explain of that node stands
  xresult,      \* node -> the explanation node unit.explain resolved with
  \* ---------------------------------------------------- context binding
  world,        \* context -> resource -> what the unit's check does on them now
  ctx,          \* the context handed to withContext
  abilities,    \* the object withContext returned (what its closures captured)
  boundResult,  \* the last bound call: operation, arguments, how it settled
  checkLog,     \* the (ctx, resource) pairs that call invoked the check with
  boundCalls,   \* number of bound calls made so far
  \* ------------------------------------------------------- withAbility
  context,      \* the context object: property key -> descriptor
  enhanced,     \* the object withAbility returned: key -> descriptor
  \* ------------------------------------------ resource type of a composite
  childTypes,   \* the resource types of the units handed to an operator
  composed      \* what constructing the composite gave: error, resource type

engineVars == <<pc, status, value, error, calls, idx, clock, startedAt, awaitedAt>>

throwVars == <<unit, resource, override, outcome, factoryCalls, checkedWith>>

filterVars == <<resources, kept>>

explainVars == <<onExplain, reported, plain, xstatus, xresult>>

bindVars == <<world, ctx, abilities, boundResult, checkLog, boundCalls>>

abilityVars == <<context, enhanced>>

typeVars == <<childTypes, composed>>

vars == <<permissions, kind, engineVars, throwVars, filterVars, explainVars, bindVars,
          abilityVars, typeVars>>

\* Behaviours of a leaf check: it returns (a promise of) true or false,
\* returns a promise that rejects, or throws synchronously.
LeafKinds == {"T", "F", "reject", "throw"}

\* Operators whose check awaits Promise.all over all children.
PromiseAllKinds == {"or", "orParallel", "andParallel"}

\* Operators built with operatorPermission, children called as p(ctx, ...).
ParallelKinds == {"orParallel", "andParallel"}

OperatorKinds == {"and", "not"} \cup PromiseAllKinds

Nodes == DOMAIN kind

Root == 1

Settled == {"resolved", "rejected"}

\* ------------------------------------------------------- tree construction
RECURSIVE SortedSeq(_)
SortedSeq(S) ==
  IF S = {} THEN <<>>
  ELSE LET m == CHOOSE x \in S : \A y \in S : x <= y
       IN <<m>> \o SortedSeq(S \ {m})

\* Parent vectors of the ordered trees with n nodes rooted at node 1.
ParentVectors(n) ==
  {par \in [1..n -> 0..n] : par[1] = 0 /\ \A i \in 2..n : par[i] >= 1 /\ par[i] < i}

ChildrenOf(par, n) ==
  SortedSeq({i \in DOMAIN par : par[i] = n})

\* Labels a node may carry: a leaf has a check behaviour, a composite an
\* operator; not() takes exactly one permission.
AllowedKinds(par, n) ==
  LET k == Len(ChildrenOf(par, n))
  IN IF k = 0 THEN LeafKinds
     ELSE IF k = 1 THEN OperatorKinds
     ELSE OperatorKinds \ {"not"}

\* ------------------------------------------------------ evaluation engine
Cur ==
  [status |-> status, value |-> value, error |-> error, calls |-> calls,
   idx |-> idx, clock |-> clock, startedAt |-> startedAt, awaitedAt |-> awaitedAt,
   onExplain |-> onExplain, reported |-> reported]

\* results.every((result) => result)
every(results) ==
  \A i \in DOMAIN results : results[i]

\* results.some((result) => result)
some(results) ==
  \E i \in DOMAIN results : results[i]

\* Slip: the AND combined with some() instead of every().
andFinalResultSome(checks) ==
  some(checks)

\* and.ts: const finalResult = checks.every((check) => check.result)
andFinalResult(checks) ==
  every(checks)

\* Slip: the loop never breaks.
andBreakNever(result) ==
  FALSE

\* Slip: the loop breaks on a true child instead of a false one.
andBreakOnTrue(result) ==
  result

\* and.ts: if (!check.result) break
andBreak(result) ==
  ~result

\* Slip: the loop calls every child without awaiting the previous one.
andStartAll(n) ==
  permissions[n]

\* and.ts: the children whose check runs before the loop first suspends:
\* the loop awaits checkWithExplain of the first child before going on.
andStart(n) ==
  SubSeq(permissions[n], 1, 1)

\* Slip: the AND over Promise.all combined with some() instead of every().
andParallelResultSome(results) ==
  some(results)

\* andParallel.ts: return results.every((result) => result)
andParallelResult(results) ==
  every(results)

\* Slip: the OR combined with every() instead of some().
orResultEvery(results) ==
  every(results)

\* or.ts / orParallel.ts: return results.some(...)
orResult(results) ==
  some(results)

\* Slip: the negation is left out.
notResultSame(allowed) ==
  allowed

\* Slip: the promise itself is negated instead of the awaited result.
notResultNoAwait(allowed) ==
  FALSE

\* not.ts: return !allowed
notResult(allowed) ==
  ~allowed

\* Slip: only the first child is called (a short-circuiting start).
parallelStartFirst(n) ==
  SubSeq(permissions[n], 1, 1)

\* Slip: the children are called last to first.
parallelStartReversed(n) ==
  [i \in DOMAIN permissions[n] |-> permissions[n][Len(permissions[n]) + 1 - i]]

\* orParallel.ts / andParallel.ts: permissions.map((p) => p(ctx, ...)) calls
\* every child, in array order, before Promise.all is awaited.
parallelStart(n) ==
  permissions[n]

RECURSIVE filterKeep(_, _, _)
RECURSIVE filterKeepDenied(_, _, _)

\* Slip: the candidates are evaluated one at a time, only the first at once.
filterStartFirst(n) ==
  [i \in DOMAIN permissions[n] \cap {1} |-> permissions[n][i]]

\* permission.ts fn.filter / operatorPermission.ts filter:
\* resources.map((r) => fn(ctx, r)) calls the unit once per position of the
\* array, in array order, before Promise.all is awaited.
filterStart(n) ==
  permissions[n]

\* Slip: the predicate of the final Array.prototype.filter is inverted.
filterKeepDenied(rs, results, i) ==
  IF i > Len(rs) THEN <<>>
  ELSE (IF results[i] THEN <<>> ELSE <<rs[i]>>) \o filterKeepDenied(rs, results, i + 1)

\* permission.ts fn.filter: return resources.filter((_, i) => results[i]),
\* from position i on.
filterKeep(rs, results, i) ==
  IF i > Len(rs) THEN <<>>
  ELSE (IF results[i] THEN <<rs[i]>> ELSE <<>>) \o filterKeep(rs, results, i + 1)

\* Slip: Promise.race-like, ready as soon as one input has fulfilled.
promiseAllReadyAny(s, n) ==
  \E i \in DOMAIN permissions[n] : s.status[permissions[n][i]] = "resolved"

\* Slip: Promise.allSettled-like, a rejected input counts as a settled,
\* falsy result.
promiseAllSettled(s, n) ==
  \A i \in DOMAIN permissions[n] : s.status[permissions[n][i]] \in Settled

\* Slip: the continuation of Promise.all is never scheduled.
promiseAllReadyNever(s, n) ==
  FALSE

\* Promise.all fulfils once every input promise has fulfilled.
promiseAllReady(s, n) ==
  \A i \in DOMAIN permissions[n] : s.status[permissions[n][i]] = "resolved"

\* The operator's async function reaches its first await.
Await(s, n) ==
  [s EXCEPT !.clock = @ + 1, !.awaitedAt[n] = s.clock + 1]

Reject(s, n, e) ==
  [s EXCEPT !.status[n] = "rejected", !.error[n] = e]

Resolve(s, n, v) ==
  [s EXCEPT !.status[n] = "resolved", !.value[n] = v]

\* Slip: every reported child is shown as denied.
detailDenied(s, c) ==
  [name |-> c, result |-> FALSE, operator |-> "", details |-> s.reported[c]]

\* operatorPermission.ts checkWithExplain: the detail of child c, built once
\* its check has resolved: its name (the node stands for it), its result
\* and what its own callback collected; `operator` is absent ("").
detail(s, c) ==
  [name |-> c, result |-> s.value[c], operator |-> "", details |-> s.reported[c]]

\* operatorPermission.ts checkWithExplain: childExplain is a fresh collector
\* (childDetails = []) when the caller has a callback, undefined otherwise;
\* or, orParallel, andParallel and filter call their children with no
\* callback (cb = FALSE).
childExplain(s, n, cb) ==
  [s EXCEPT !.onExplain = [m \in DOMAIN @ |->
                             IF \E i \in DOMAIN permissions[n] : permissions[n][i] = m
                             THEN cb ELSE @[m]],
            !.reported = [m \in DOMAIN @ |->
                            IF \E i \in DOMAIN permissions[n] : permissions[n][i] = m
                            THEN <<>> ELSE @[m]]]

\* Slip: the callback is called without the `if (onExplain)` test.
callOnExplainAlways(s, n, operator, cs) ==
  [s EXCEPT !.reported[n] =
     Append(@, [name |-> n, result |-> s.value[n], operator |-> operator,
                details |-> [i \in DOMAIN cs |-> detail(s, cs[i])]])]

\* and.ts 153-162, not with explain: if (onExplain) onExplain({name, result,
\* operator, details: checks.map((check) => check.detail)}), cs being the
\* children that were checked.
callOnExplain(s, n, operator, cs) ==
  IF s.onExplain[n]
  THEN [s EXCEPT !.reported[n] =
          Append(@, [name |-> n, result |-> s.value[n], operator |-> operator,
                     details |-> [i \in DOMAIN cs |-> detail(s, cs[i])]])]
  ELSE s

RECURSIVE Invoke(_, _)
RECURSIVE InvokeSeq(_, _, _)
RECURSIVE InvokeMap(_, _, _)

\* Calls the checks of ps[i..] one after the other (Array.prototype.map over
\* async callables: a throw inside a callee rejects its promise and the
\* mapping goes on).
InvokeSeq(s, ps, i) ==
  IF i > Len(ps) THEN s
  ELSE InvokeSeq(Invoke(s, ps[i]), ps, i + 1)

\* or.ts: permissions.map((p) => p.check(ctx, resource)): p.check of a leaf
\* is the user's function, so a synchronous throw leaves map() and rejects
\* the or before the remaining children are called.
InvokeMap(s, n, i) ==
  IF i > Len(permissions[n]) THEN Await(s, n)
  ELSE LET c == permissions[n][i]
           s1 == Invoke(s, c)
       IN IF kind[c] = "throw" THEN Reject(s1, n, s1.error[c])
          ELSE InvokeMap(s1, n, i + 1)

\* The synchronous part of calling unit n: the call itself, then whatever
\* the unit's check does before it first suspends.
Invoke(s, n) ==
  LET s1 == [s EXCEPT !.clock = @ + 1, !.calls[n] = @ + 1,
                      !.startedAt[n] = s.clock + 1, !.status[n] = "pending"]
  IN CASE kind[n] = "throw" -> Reject(s1, n, n)
       [] kind[n] \in {"T", "F", "reject"} -> s1
       [] kind[n] = "and" ->
            Await(InvokeSeq([childExplain(s1, n, s1.onExplain[n])
                               EXCEPT !.idx[n] = 1], andStart(n), 1), n)
       [] kind[n] = "not" ->
            Await(Invoke(childExplain(s1, n, s1.onExplain[n]), permissions[n][1]), n)
       [] kind[n] = "or" -> InvokeMap(childExplain(s1, n, FALSE), n, 1)
       [] kind[n] \in ParallelKinds ->
            Await(InvokeSeq(childExplain(s1, n, FALSE), parallelStart(n), 1), n)
       [] kind[n] = "filter" ->
            Await(InvokeSeq(childExplain(s1, n, FALSE), filterStart(n), 1), n)

CommitEngine(s) ==
  /\ status' = s.status
  /\ value' = s.value
  /\ error' = s.error
  /\ calls' = s.calls
  /\ idx' = s.idx
  /\ clock' = s.clock
  /\ startedAt' = s.startedAt
  /\ awaitedAt' = s.awaitedAt
  /\ onExplain' = s.onExplain
  /\ reported' = s.reported
  /\ UNCHANGED <<permissions, kind, throwVars, resources, bindVars, abilityVars,
                 typeVars>>

Commit(s) ==
  /\ CommitEngine(s)
  /\ UNCHANGED <<kept, plain, xstatus, xresult>>

\* ------------------------------------------------------------- JS values
\* A JavaScript value: `type` is what typeof yields, `cls` the constructor
\* of an object, `id` its identity, `str` the text of a string or the
\* message of an error (a sequence of text fragments).
JsUndefined == [type |-> "undefined", cls |-> "", id |-> 0, str |-> <<>>]

JsObject(i) == [type |-> "object", cls |-> "Object", id |-> i, str |-> <<>>]

JsString(s) == [type |-> "string", cls |-> "", id |-> 0, str |-> s]

JsFunction(i) == [type |-> "function", cls |-> "Function", id |-> i, str |-> <<>>]

JsError(c, i, msg) == [type |-> "object", cls |-> c, id |-> i, str |-> msg]

\* ForbiddenError extends PermissionError extends Error.
ErrorClasses == {"Error", "PermissionError", "ForbiddenError", "UnauthorizedError"}

\* v instanceof Error
instanceofError(v) ==
  v.cls \in ErrorClasses

\* !v for the values an override can be: undefined and '' are falsy.
falsy(v) ==
  v.type = "undefined" \/ (v.type = "string" /\ v.str = <<>>)

\* new ForbiddenError(message): a fresh instance (identity 0).
ForbiddenError(message) ==
  JsError("ForbiddenError", 0, message)

\* error(): what calling the function f with no argument returns.
callFactory(f) ==
  JsError("Error", 10 + f.id, <<"made by factory ">>)

\* The exception a faulting check rejects with.
checkFault == JsError("Error", 99, <<"check fault">>)

\* args[i] of a rest-argument list, undefined past its end.
argAt(args, i) ==
  IF i <= Len(args) THEN args[i] ELSE JsUndefined

\* Whether the text `part` occurs in the text `whole`.
contains(whole, part) ==
  \E k \in 0..Len(whole) :
    k + Len(part) <= Len(whole) /\ SubSeq(whole, k + 1, k + Len(part)) = part

\* --------------------------------------------------------------- naming
RECURSIVE join(_, _)
\* names.join(sep)
join(names, sep) ==
  IF names = <<>> THEN <<>>
  ELSE IF Len(names) = 1 THEN names[1]
  ELSE names[1] \o <<sep>> \o join(Tail(names), sep)

\* `(${children.map((p) => p.name).join(` ${operator} `)})`
operatorName(operator, names) ==
  <<"(">> \o join(names, " " \o operator \o " ") \o <<")">>

\* ------------------------------------------------------ orThrow, authorize
\* `Permission denied: ${name}`
deniedMessage(name) ==
  <<"Permission denied: ">> \o name

\* The settled call: state, exception thrown, factory calls, resources the
\* check was invoked with.
Settlement(st, thrown, f, with) ==
  [state |-> st, thrown |-> thrown, factoryCalls |-> f, checkedWith |-> with]

\* permission.ts 101-115 / authorize 42-54: what a denial throws.
deny(name, err, with) ==
  IF falsy(err) THEN Settlement("rejected", ForbiddenError(deniedMessage(name)), 0, with)
  ELSE IF err.type = "string" THEN Settlement("rejected", ForbiddenError(err.str), 0, with)
  ELSE IF err.type = "function" THEN Settlement("rejected", callFactory(err), 1, with)
  ELSE Settlement("rejected", err, 0, with)

\* permission.ts 72-75: fn(ctx, ...args) awaits check(ctx, args[0]).
fn(u, res) ==
  u.check[res]

\* The argument list a well-typed caller passes after ctx: a unit without
\* resource takes [error?], a unit with a resource [resource, error?].
callArgs(u, res, err) ==
  (IF u.bound THEN <<res>> ELSE <<>>) \o (IF err = JsUndefined THEN <<>> ELSE <<err>>)

\* permission.ts 88-116: fn.orThrow(ctx, ...args).
orThrow(u, args) ==
  LET hasResource ==
        /\ Len(args) >= 1
        /\ args[1].type # "string"
        /\ args[1].type # "function"
        /\ ~instanceofError(args[1])
      res == IF hasResource THEN args[1] ELSE JsUndefined
      err == IF hasResource THEN argAt(args, 2) ELSE argAt(args, 1)
      allowed == fn(u, res)
  IN IF allowed = "reject" THEN Settlement("rejected", checkFault, 0, <<res>>)
     ELSE IF allowed = "T" THEN Settlement("resolved", JsUndefined, 0, <<res>>)
     ELSE deny(u.name, err, <<res>>)

\* can(ctx, p, resource): the plain boolean evaluation of p.
can(u, res) ==
  u.check[res]

\* authorize(ctx, p, resource?, options?) with err = options?.error.
authorize(u, res, err) ==
  LET allowed == can(u, res)
  IN IF allowed = "reject" THEN Settlement("rejected", checkFault, 0, <<res>>)
     ELSE IF allowed = "T" THEN Settlement("resolved", JsUndefined, 0, <<res>>)
     ELSE deny(u.name, err, <<res>>)

\* Resources a caller may pass: nothing, plain objects, a string id, a
\* function, an Error instance.
ResourceValues ==
  {JsUndefined, JsString(<<"u1">>), JsFunction(1), JsError("Error", 1, <<"boom">>)}
    \cup {JsObject(i) : i \in 1..MaxObjects}

\* Error overrides: none, '', a message, an Error instance, a factory.
Overrides ==
  {JsUndefined, JsString(<<>>), JsString(<<"Custom message">>),
   JsError("Error", 2, <<"custom">>), JsFunction(2)}

\* Names of a leaf and of a composite.
UnitNames ==
  {<<"isAdmin">>, operatorName("OR", <<(<<"isOwner">>), (<<"isAdmin">>)>>)}

Units ==
  [name : UnitNames, bound : BOOLEAN, check : [ResourceValues -> {"T", "F", "reject"}]]

NoOutcome == [op |-> "none", state |-> "none", thrown |-> JsUndefined]

ThrowIdle ==
  /\ outcome = NoOutcome
  /\ factoryCalls = 0
  /\ checkedWith = <<>>

FilterIdle ==
  /\ resources = <<>>
  /\ kept = <<>>

\* No explanation node yet.
NoNode == [name |-> 0, result |-> FALSE, operator |-> "", details |-> <<>>]

ExplainIdle ==
  /\ onExplain = [i \in DOMAIN permissions |-> FALSE]
  /\ reported = [i \in DOMAIN permissions |-> <<>>]
  /\ plain = <<>>
  /\ xstatus = [i \in DOMAIN permissions |-> "idle"]
  /\ xresult = [i \in DOMAIN permissions |-> NoNode]

\* Contexts a caller may bind.
Contexts == {1, 2}

\* Resources passed through a binding: nothing or a plain object.
BindResources ==
  {JsUndefined, JsObject(1)}

NoBound ==
  [op |-> "none", args |-> <<>>, state |-> "none", value |-> FALSE,
   list |-> <<>>, thrown |-> JsUndefined]

BindIdle ==
  /\ world = [c \in Contexts |-> [r \in BindResources |-> "T"]]
  /\ ctx = 1
  /\ abilities = [ctx |-> 1]
  /\ boundResult = NoBound
  /\ checkLog = <<>>
  /\ boundCalls = 0

\* The operations withAbility attaches.
Methods == {"can", "authorize", "filter"}

\* Property keys of a context object and of the object withAbility returns.
AbilityKeys == {"user"} \cup Methods

\* The descriptor of a property that is not there.
Absent == [where |-> "absent", enumerable |-> FALSE, value |-> JsUndefined]

\* No context object has been enhanced.
AbilityIdle ==
  /\ context = [k \in AbilityKeys |-> Absent]
  /\ enhanced = [k \in AbilityKeys |-> Absent]

\* No composite has been typed.
NoComposite == [error |-> FALSE, resourceType |-> "none"]

TypesIdle ==
  /\ childTypes = <<>>
  /\ composed = NoComposite

\* ---------------------------------------------------------------- actions
InitOfSize(size) ==
  /\ \E n \in 1..size : \E par \in ParentVectors(n) :
       /\ permissions = [i \in 1..n |-> ChildrenOf(par, i)]
       /\ kind \in {k \in [1..n -> LeafKinds \cup OperatorKinds] :
                      \A i \in 1..n : k[i] \in AllowedKinds(par, i)}
  /\ pc = "idle"
  /\ status = [i \in DOMAIN permissions |-> "idle"]
  /\ value = [i \in DOMAIN permissions |-> FALSE]
  /\ error = [i \in DOMAIN permissions |-> 0]
  /\ calls = [i \in DOMAIN permissions |-> 0]
  /\ idx = [i \in DOMAIN permissions |-> 0]
  /\ clock = 0
  /\ startedAt = [i \in DOMAIN permissions |-> 0]
  /\ awaitedAt = [i \in DOMAIN permissions |-> 0]
  /\ unit = [name |-> <<"isAdmin">>, bound |-> FALSE,
             check |-> [r \in ResourceValues |-> "T"]]
  /\ resource = JsUndefined
  /\ override = JsUndefined
  /\ ThrowIdle
  /\ FilterIdle
  /\ ExplainIdle
  /\ BindIdle
  /\ AbilityIdle
  /\ TypesIdle

\* The state after a unit of at most MaxNodes nodes has been constructed.
Init ==
  InitOfSize(MaxNodes)

\* The caller evaluates the root unit: unit(ctx, resource) / can(ctx, unit).
Call ==
  /\ pc = "idle"
  /\ pc' = "called"
  /\ Commit(Invoke(Cur, Root))

\* The unit that called n, 0 for a unit called from outside.
Caller(n) ==
  IF \E m \in Nodes : \E i \in DOMAIN permissions[m] : permissions[m][i] = n
  THEN CHOOSE m \in Nodes : \E i \in DOMAIN permissions[m] : permissions[m][i] = n
  ELSE 0

\* Slip: a check started by a parallel operator or by filter is abandoned
\* once that caller has settled.
SettleAbandoned(n) ==
  /\ kind[n] \in {"T", "F", "reject"}
  /\ status[n] = "pending"
  /\ ~(/\ Caller(n) # 0
       /\ kind[Caller(n)] \in ParallelKinds \cup {"filter"}
       /\ status[Caller(n)] \in Settled)
  /\ Commit(IF kind[n] = "reject" THEN Reject(Cur, n, n)
            ELSE Resolve(Cur, n, kind[n] = "T"))
  /\ UNCHANGED pc

\* The promise returned by a leaf's check settles.
Settle(n) ==
  /\ kind[n] \in {"T", "F", "reject"}
  /\ status[n] = "pending"
  /\ Commit(IF kind[n] = "reject" THEN Reject(Cur, n, n)
            ELSE Resolve(Cur, n, kind[n] = "T"))
  /\ UNCHANGED pc

\* and.ts 139-162: the loop resumes after `await checkWithExplain(p, ...)`.
ResumeAnd(n) ==
  /\ kind[n] = "and"
  /\ status[n] = "pending"
  /\ LET c == permissions[n][idx[n]]
         checks == [i \in 1..idx[n] |-> value[permissions[n][i]]]
     IN /\ status[c] \in Settled
        /\ Commit(IF status[c] = "rejected" THEN Reject(Cur, n, error[c])
                  ELSE IF andBreak(value[c]) \/ idx[n] = Len(permissions[n])
                       THEN callOnExplain(Resolve(Cur, n, andFinalResult(checks)), n,
                                          "AND", SubSeq(permissions[n], 1, idx[n]))
                  ELSE Invoke([Cur EXCEPT !.idx[n] = @ + 1],
                              permissions[n][idx[n] + 1]))
  /\ UNCHANGED pc

\* or.ts 148-156, orParallel.ts 87-90, andParallel.ts 87-90: the function
\* resumes after `await Promise.all(...)`, which rejects as soon as one
\* input has rejected and fulfils when all inputs have fulfilled.
ResumePromiseAll(n) ==
  /\ kind[n] \in PromiseAllKinds
  /\ status[n] = "pending"
  /\ LET ps == permissions[n]
         results == [i \in DOMAIN ps |-> value[ps[i]]]
     IN \/ \E i \in DOMAIN ps :
             /\ status[ps[i]] = "rejected"
             /\ Commit(Reject(Cur, n, error[ps[i]]))
        \/ /\ promiseAllReady(Cur, n)
           /\ Commit(Resolve(Cur, n, IF kind[n] = "andParallel"
                                     THEN andParallelResult(results)
                                     ELSE orResult(results)))
  /\ UNCHANGED pc

\* not.ts 17-19: resumes after awaiting the child's result and inverts it.
\* The revision of not that takes onExplain awaits checkWithExplain instead
\* and then calls onExplain once, with the detail of its child.
ResumeNot(n) ==
  /\ kind[n] = "not"
  /\ status[n] = "pending"
  /\ LET c == permissions[n][1]
     IN /\ status[c] \in Settled
        /\ Commit(IF status[c] = "rejected" THEN Reject(Cur, n, error[c])
                  ELSE callOnExplain(Resolve(Cur, n, notResult(value[c])), n,
                                     "NOT", permissions[n]))
  /\ UNCHANGED pc

Next ==
  \/ Call
  \/ \E n \in Nodes : Settle(n)
  \/ \E n \in Nodes : ResumeAnd(n)
  \/ \E n \in Nodes : ResumePromiseAll(n)
  \/ \E n \in Nodes : ResumeNot(n)

Spec == Init /\ [][Next]_vars

\* ------------------------------------------- orThrow / authorize on a unit
InitThrow ==
  /\ permissions = <<(<<>>)>>
  /\ kind = <<"T">>
  /\ pc = "idle"
  /\ status = <<"idle">>
  /\ value = <<FALSE>>
  /\ error = <<0>>
  /\ calls = <<0>>
  /\ idx = <<0>>
  /\ clock = 0
  /\ startedAt = <<0>>
  /\ awaitedAt = <<0>>
  /\ unit \in Units
  /\ resource \in ResourceValues
  /\ ~unit.bound => resource = JsUndefined
  /\ override \in Overrides
  /\ ThrowIdle
  /\ FilterIdle
  /\ ExplainIdle
  /\ BindIdle
  /\ AbilityIdle
  /\ TypesIdle

Finish(op, s) ==
  /\ pc = "idle"
  /\ pc' = "done"
  /\ outcome' = [op |-> op, state |-> s.state, thrown |-> s.thrown]
  /\ factoryCalls' = s.factoryCalls
  /\ checkedWith' = s.checkedWith
  /\ UNCHANGED <<permissions, kind, status, value, error, calls, idx, clock,
                 startedAt, awaitedAt, unit, resource, override, filterVars,
                 explainVars, bindVars, abilityVars, typeVars>>

\* await unit.orThrow(ctx, resource?, error?)
OrThrow ==
  Finish("orThrow", orThrow(unit, callArgs(unit, resource, override)))

\* await authorize(ctx, unit, resource, { error })
Authorize ==
  Finish("authorize", authorize(unit, resource, override))

NextThrow ==
  \/ OrThrow
  \/ Authorize

SpecThrow == InitThrow /\ [][NextThrow]_vars

\* -------------------------------------------------------- context binding
\* The unit as its check behaves when called with context c.
unitAt(c) ==
  [name |-> unit.name, bound |-> unit.bound,
   check |-> [r \in ResourceValues |->
                IF r \in BindResources THEN world[c][r] ELSE "F"]]

\* operatorPermission.ts filter(ctx, p, resources): Promise.all over
\* can(ctx, p, r), then resources.filter((_, i) => results[i]).
filter(u, rs) ==
  LET results == [i \in DOMAIN rs |-> can(u, rs[i])]
  IN IF \E i \in DOMAIN rs : results[i] = "reject"
     THEN [state |-> "rejected", list |-> <<>>, thrown |-> checkFault]
     ELSE [state |-> "resolved", thrown |-> JsUndefined,
           list |-> filterKeep(rs, [i \in DOMAIN rs |-> results[i] = "T"], 1)]

\* Slip: the closures read a context other than the one they were given.
withContextOther(c) ==
  [ctx |-> CHOOSE d \in Contexts : d # c]

\* withContext(ctx) / withContext(ctx, permissions): every closure of the
\* returned object captures ctx.
withContext(c) ==
  [ctx |-> c]

\* withContext(ctx).can = (p, resource?) => can(ctx, p, resource)
boundCan(b, res) ==
  can(unitAt(b.ctx), res)

\* withContext(ctx).authorize = (p, resource?, options?) =>
\*   authorize(ctx, p, resource, options)
boundAuthorize(b, res, err) ==
  authorize(unitAt(b.ctx), res, err)

\* withContext(ctx).filter = (p, resources) => filter(ctx, p, resources)
boundFilter(b, rs) ==
  filter(unitAt(b.ctx), rs)

\* withContext.ts: bound[key] = (...args) => permission(ctx, ...args)
boundUnit(b, res) ==
  fn(unitAt(b.ctx), res)

\* How a boolean-returning call settles.
Verdict(op, args, allowed) ==
  [op |-> op, args |-> args,
   state |-> IF allowed = "reject" THEN "rejected" ELSE "resolved",
   value |-> allowed = "T", list |-> <<>>,
   thrown |-> IF allowed = "reject" THEN checkFault ELSE JsUndefined]

InitBind ==
  /\ permissions = <<(<<>>)>>
  /\ kind = <<"T">>
  /\ pc = "idle"
  /\ status = <<"idle">>
  /\ value = <<FALSE>>
  /\ error = <<0>>
  /\ calls = <<0>>
  /\ idx = <<0>>
  /\ clock = 0
  /\ startedAt = <<0>>
  /\ awaitedAt = <<0>>
  /\ unit = [name |-> <<"isAdmin">>, bound |-> TRUE,
             check |-> [r \in ResourceValues |-> "T"]]
  /\ resource = JsUndefined
  /\ override = JsUndefined
  /\ ThrowIdle
  /\ FilterIdle
  /\ ExplainIdle
  /\ world \in [Contexts -> [BindResources -> {"T", "F", "reject"}]]
  /\ ctx \in Contexts
  /\ abilities = withContext(ctx)
  /\ boundResult = NoBound
  /\ checkLog = <<>>
  /\ boundCalls = 0
  /\ AbilityIdle
  /\ TypesIdle

\* One call through the binding settles with r, having invoked the check
\* with the resources `with`, each time with the captured context.
Bound(r, with) ==
  /\ boundCalls < MaxCalls
  /\ boundCalls' = boundCalls + 1
  /\ pc' = "bound"
  /\ boundResult' = r
  /\ checkLog' = [i \in DOMAIN with |-> [ctx |-> abilities.ctx, resource |-> with[i]]]
  /\ UNCHANGED <<permissions, kind, status, value, error, calls, idx, clock,
                 startedAt, awaitedAt, throwVars, filterVars, explainVars,
                 world, ctx, abilities, abilityVars, typeVars>>

\* await abilities.can(unit, resource)
BoundCan ==
  \E res \in BindResources :
    Bound(Verdict("can", <<res>>, boundCan(abilities, res)), <<res>>)

\* await abilities.authorize(unit, resource, { error })
BoundAuthorize ==
  \E res \in BindResources : \E err \in Overrides :
    LET s == boundAuthorize(abilities, res, err)
    IN Bound([op |-> "authorize", args |-> <<res, err>>, state |-> s.state,
              value |-> FALSE, list |-> <<>>, thrown |-> s.thrown],
             s.checkedWith)

\* await abilities.filter(unit, resources)
BoundFilter ==
  \E len \in 0..MaxCandidates : \E rs \in [1..len -> BindResources] :
    LET s == boundFilter(abilities, rs)
    IN Bound([op |-> "filter", args |-> rs, state |-> s.state, value |-> FALSE,
              list |-> s.list, thrown |-> s.thrown], rs)

\* await abilities.unit(resource), abilities = withContext(ctx, { unit })
BoundUnit ==
  \E res \in BindResources :
    Bound(Verdict("unit", <<res>>, boundUnit(abilities, res)), <<res>>)

\* Between two calls what a check reads (the context object, the resource,
\* a store) changes, so the check answers differently on some input.
Mutate ==
  /\ pc = "bound"
  /\ pc' = "idle"
  /\ \E c \in Contexts : \E r \in BindResources : \E k \in {"T", "F", "reject"} :
       /\ k # world[c][r]
       /\ world' = [world EXCEPT ![c][r] = k]
  /\ boundResult' = NoBound
  /\ checkLog' = <<>>
  /\ UNCHANGED <<permissions, kind, status, value, error, calls, idx, clock,
                 startedAt, awaitedAt, throwVars, filterVars, explainVars,
                 ctx, abilities, boundCalls, abilityVars, typeVars>>

NextBind ==
  \/ BoundCan
  \/ BoundAuthorize
  \/ BoundFilter
  \/ BoundUnit
  \/ Mutate

SpecBind == InitBind /\ [][NextBind]_vars

\* ------------------------------------------------------ explain on a unit
\* No evaluation is under way.
Quiescent ==
  \A n \in Nodes : status[n] # "pending"

\* operatorPermission.ts 101-124: await explain(ctx, unit, resource) calls
\* unit.check(ctx, resource, (detail) => details.push(detail)).  The caller
\* has evaluated the unit plainly before; what that call left is kept in
\* `plain`.
Explain ==
  /\ pc = "called"
  /\ Quiescent
  /\ pc' = "explain"
  /\ plain' = Cur
  /\ CommitEngine(Invoke([Cur EXCEPT !.onExplain[Root] = TRUE,
                                     !.reported[Root] = <<>>], Root))
  /\ UNCHANGED <<kept, xstatus, xresult>>

\* operatorPermission.ts 117-122: the node explain resolves with once the
\* check of the unit has resolved.
explain ==
  [name |-> Root, result |-> value[Root], operator |-> "", details |-> reported[Root]]

\* permission.ts 84-86: fn.children is set for the units operatorPermission
\* builds, which hands its children to permission().
hasChildren(n) ==
  kind[n] \in ParallelKinds

\* permission.ts 123-126: await unit.explain(ctx, resource) first calls the
\* unit itself, `await fn(ctx, ...)`.
UnitExplain ==
  /\ pc = "called"
  /\ Quiescent
  /\ pc' = "unitExplain"
  /\ plain' = Cur
  /\ CommitEngine(Invoke(Cur, Root))
  /\ xstatus' = [xstatus EXCEPT ![Root] = "value"]
  /\ UNCHANGED <<kept, xresult>>

\* permission.ts 126-141: fn.explain of n resumes after `await fn(...)`:
\* it rejects if fn did, else builds {name, value, duration} and, for a unit
\* with children, calls explain of every child, which calls the child again.
ExplainValue(n) ==
  /\ xstatus[n] = "value"
  /\ status[n] \in Settled
  /\ IF status[n] = "rejected"
     THEN /\ xstatus' = [xstatus EXCEPT ![n] = "rejected"]
          /\ UNCHANGED xresult
          /\ CommitEngine(Cur)
     ELSE /\ xresult' = [xresult EXCEPT ![n] =
                           [name |-> n, result |-> value[n], operator |-> "",
                            details |-> <<>>]]
          /\ IF hasChildren(n)
             THEN /\ xstatus' = [m \in DOMAIN xstatus |->
                                   IF m = n THEN "children"
                                   ELSE IF \E i \in DOMAIN permissions[n] :
                                             permissions[n][i] = m
                                        THEN "value" ELSE xstatus[m]]
                  /\ CommitEngine(InvokeSeq(Cur, permissions[n], 1))
             ELSE /\ xstatus' = [xstatus EXCEPT ![n] = "resolved"]
                  /\ CommitEngine(Cur)
  /\ UNCHANGED <<pc, kept, plain>>

\* permission.ts 136-141: fn.explain of n resumes after `await Promise.all`
\* over the explanations of its children and returns the node with them.
ExplainChildren(n) ==
  /\ xstatus[n] = "children"
  /\ LET ps == permissions[n]
     IN IF \E i \in DOMAIN ps : xstatus[ps[i]] = "rejected"
        THEN /\ xstatus' = [xstatus EXCEPT ![n] = "rejected"]
             /\ UNCHANGED xresult
        ELSE /\ \A i \in DOMAIN ps : xstatus[ps[i]] = "resolved"
             /\ xstatus' = [xstatus EXCEPT ![n] = "resolved"]
             /\ xresult' = [xresult EXCEPT ![n].details =
                                             [i \in DOMAIN ps |-> xresult[ps[i]]]]
  /\ CommitEngine(Cur)
  /\ UNCHANGED <<pc, kept, plain>>

NextExplain ==
  \/ Call
  \/ \E n \in Nodes : Settle(n)
  \/ \E n \in Nodes : ResumeAnd(n)
  \/ \E n \in Nodes : ResumePromiseAll(n)
  \/ \E n \in Nodes : ResumeNot(n)
  \/ Explain
  \/ UnitExplain
  \/ \E n \in Nodes : ExplainValue(n)
  \/ \E n \in Nodes : ExplainChildren(n)

SpecExplain == Init /\ [][NextExplain]_vars

\* ------------------------------------- several units evaluated side by side
\* The units nobody composes: those a caller evaluates directly.
Roots ==
  {n \in Nodes : \A m \in Nodes : \A i \in DOMAIN permissions[m] : permissions[m][i] # n}

\* index.test.ts 519-551: not(and(A, B)) next to or(not(A), not(B)), and
\* not(or(A, B)) next to and(not(A), not(B)); the leaves A and B are the
\* nodes 3, 4 of the first unit and 8, 9 of the second one.
DeMorganPermissions ==
  <<(<<2>>), (<<3, 4>>), (<<>>), (<<>>), (<<6, 7>>), (<<8>>), (<<9>>), (<<>>), (<<>>)>>

DeMorganKinds(inner, outer, a, b) ==
  <<"not", inner, a, b, outer, "not", "not", a, b>>

\* index.test.ts 589-600: not(not(P)) next to P, for a leaf P and for a
\* composite P over two leaves.
DoubleNegationPermissions(composite) ==
  IF composite
  THEN <<(<<2>>), (<<3>>), (<<4, 5>>), (<<>>), (<<>>), (<<7, 8>>), (<<>>), (<<>>)>>
  ELSE <<(<<2>>), (<<3>>), (<<>>), (<<>>)>>

DoubleNegationKinds(composite, op, a, b) ==
  IF composite THEN <<"not", "not", op, a, b, op, a, b>>
  ELSE <<"not", "not", a, a>>

InitLaws ==
  /\ \E a, b \in {"T", "F"} :
       \/ /\ permissions = DeMorganPermissions
          /\ \E ao \in {<<"and", "or">>, <<"or", "and">>,
                          <<"andParallel", "orParallel">>,
                          <<"orParallel", "andParallel">>} :
               kind = DeMorganKinds(ao[1], ao[2], a, b)
       \/ \E composite \in BOOLEAN :
          \E op \in OperatorKinds \ {"not"} :
            /\ permissions = DoubleNegationPermissions(composite)
            /\ kind = DoubleNegationKinds(composite, op, a, b)
  /\ pc = "idle"
  /\ status = [i \in DOMAIN permissions |-> "idle"]
  /\ value = [i \in DOMAIN permissions |-> FALSE]
  /\ error = [i \in DOMAIN permissions |-> 0]
  /\ calls = [i \in DOMAIN permissions |-> 0]
  /\ idx = [i \in DOMAIN permissions |-> 0]
  /\ clock = 0
  /\ startedAt = [i \in DOMAIN permissions |-> 0]
  /\ awaitedAt = [i \in DOMAIN permissions |-> 0]
  /\ unit = [name |-> <<"isAdmin">>, bound |-> FALSE,
             check |-> [r \in ResourceValues |-> "T"]]
  /\ resource = JsUndefined
  /\ override = JsUndefined
  /\ ThrowIdle
  /\ FilterIdle
  /\ ExplainIdle
  /\ BindIdle
  /\ AbilityIdle
  /\ TypesIdle

\* await can(ctx, r): the caller evaluates one of its units.
CallUnit(r) ==
  /\ r \in Roots
  /\ status[r] = "idle"
  /\ pc' = "called"
  /\ Commit(Invoke(Cur, r))

NextLaws ==
  \/ \E r \in Nodes : CallUnit(r)
  \/ \E n \in Nodes : Settle(n)
  \/ \E n \in Nodes : ResumeAnd(n)
  \/ \E n \in Nodes : ResumePromiseAll(n)
  \/ \E n \in Nodes : ResumeNot(n)

SpecLaws == InitLaws /\ [][NextLaws]_vars

\* ------------------------------------------------------- filter on a unit
\* Resources the candidate array is drawn from; the same resource may sit at
\* several positions.
CandidatePool == {1, 2}

\* What the unit does on one resource: the behaviour of its check if it is
\* a leaf, of the checks of its two children if it is or(isOwner, isAdmin).
UnitBehaviours ==
  {<<k>> : k \in LeafKinds} \cup {<<a, b>> : a, b \in {"T", "F"}}

\* Nodes of one evaluation of the unit: the leaf, or the or and its leaves.
InstanceSize(b) ==
  IF Len(b) = 1 THEN 1 ELSE 3

\* Node 1 is the filter call; the evaluation of the unit on resources[i]
\* is the subtree rooted at FilterInstance(w, i).
FilterInstance(w, i) ==
  2 + w * (i - 1)

InitFilter ==
  /\ \E len \in 0..MaxCandidates : resources \in [1..len -> CandidatePool]
  /\ \E w \in {1, 3} :
     \E beh \in [CandidatePool -> {b \in UnitBehaviours : InstanceSize(b) = w}] :
       /\ permissions =
            [m \in 1..(1 + w * Len(resources)) |->
               IF m = 1 THEN [i \in 1..Len(resources) |-> FilterInstance(w, i)]
               ELSE IF w = 3 /\ (m - 2) % 3 = 0 THEN <<m + 1, m + 2>>
               ELSE <<>>]
       /\ kind =
            [m \in 1..(1 + w * Len(resources)) |->
               IF m = 1 THEN "filter"
               ELSE IF w = 3 /\ (m - 2) % 3 = 0 THEN "or"
               ELSE beh[resources[((m - 2) \div w) + 1]]
                       [IF w = 1 THEN 1 ELSE (m - 2) % 3]]
  /\ pc = "idle"
  /\ status = [i \in DOMAIN permissions |-> "idle"]
  /\ value = [i \in DOMAIN permissions |-> FALSE]
  /\ error = [i \in DOMAIN permissions |-> 0]
  /\ calls = [i \in DOMAIN permissions |-> 0]
  /\ idx = [i \in DOMAIN permissions |-> 0]
  /\ clock = 0
  /\ startedAt = [i \in DOMAIN permissions |-> 0]
  /\ awaitedAt = [i \in DOMAIN permissions |-> 0]
  /\ unit = [name |-> <<"isAdmin">>, bound |-> TRUE,
             check |-> [r \in ResourceValues |-> "T"]]
  /\ resource = JsUndefined
  /\ override = JsUndefined
  /\ ThrowIdle
  /\ kept = <<>>
  /\ ExplainIdle
  /\ BindIdle
  /\ AbilityIdle
  /\ TypesIdle

\* await unit.filter(ctx, resources) / filter(ctx, unit, resources)
Filter ==
  /\ pc = "idle"
  /\ kind[Root] = "filter"
  /\ pc' = "filter"
  /\ Commit(Invoke(Cur, Root))

\* permission.ts 119-120: filter resumes after `await Promise.all(...)` and
\* returns resources.filter((_, i) => results[i]).
ResumeFilter(n) ==
  /\ kind[n] = "filter"
  /\ status[n] = "pending"
  /\ LET ps == permissions[n]
         results == [i \in DOMAIN ps |-> value[ps[i]]]
     IN \/ \E i \in DOMAIN ps :
             /\ status[ps[i]] = "rejected"
             /\ Commit(Reject(Cur, n, error[ps[i]]))
        \/ /\ promiseAllReady(Cur, n)
           /\ CommitEngine(Resolve(Cur, n, TRUE))
           /\ kept' = filterKeep(resources, results, 1)
           /\ UNCHANGED <<plain, xstatus, xresult>>
  /\ UNCHANGED pc

NextFilter ==
  \/ Filter
  \/ \E n \in Nodes : Settle(n)
  \/ \E n \in Nodes : ResumePromiseAll(n)
  \/ \E n \in Nodes : ResumeFilter(n)

SpecFilter == InitFilter /\ [][NextFilter]_vars

\* ------------------------------------------- every way of invoking a unit
\* The caller holds a unit, or a unit and a candidate array, and invokes it
\* in one of the ways the unit offers: the plain call, explain, filter,
\* orThrow, authorize.
InitAll ==
  \/ Init
  \/ InitFilter
  \/ InitThrow

NextAll ==
  \/ kind[Root] # "filter" /\ NextExplain
  \/ kind[Root] = "filter" /\ NextFilter
  \/ NextThrow

SpecAll == InitAll /\ [][NextAll]_vars

\* ------------------------------------------------------------ withAbility
\* A property of a context object: an own property (enumerable or not) or
\* one inherited from the prototype, and the value reading it yields.
Descriptors ==
  {Absent} \cup
  [where : {"own", "inherited"}, enumerable : BOOLEAN, value : {JsObject(1)}]

\* Context objects a caller may hand to withAbility: `authorize` is left
\* out of the keys a context may carry.
ContextObjects ==
  {o \in [AbilityKeys -> Descriptors] : o["authorize"] = Absent}

\* The closure withAbility stores under `method`, which captured context c.
closure(method, c) ==
  [where |-> "own", enumerable |-> TRUE,
   value |-> [type |-> "function", cls |-> method, id |-> c, str |-> <<>>]]

\* Slip: the context is not spread into the result.
withAbilityNoSpread(c, o) ==
  [k \in AbilityKeys |-> IF k \in Methods THEN closure(k, c) ELSE Absent]

\* withAbility.ts 6-16: { ...ctx, can, authorize, filter }.  The spread
\* copies the own enumerable properties of ctx; the three methods are
\* written after it.
withAbility(c, o) ==
  [k \in AbilityKeys |->
     IF k \in Methods THEN closure(k, c)
     ELSE IF o[k].where = "own" /\ o[k].enumerable THEN o[k]
     ELSE Absent]

InitAbility ==
  /\ permissions = <<(<<>>)>>
  /\ kind = <<"T">>
  /\ pc = "idle"
  /\ status = <<"idle">>
  /\ value = <<FALSE>>
  /\ error = <<0>>
  /\ calls = <<0>>
  /\ idx = <<0>>
  /\ clock = 0
  /\ startedAt = <<0>>
  /\ awaitedAt = <<0>>
  /\ unit = [name |-> <<"isAdmin">>, bound |-> TRUE,
             check |-> [r \in ResourceValues |-> "T"]]
  /\ resource = JsUndefined
  /\ override = JsUndefined
  /\ ThrowIdle
  /\ FilterIdle
  /\ ExplainIdle
  /\ \E k \in [Contexts -> {"T", "F"}] :
       world = [c \in Contexts |-> [r \in BindResources |-> k[c]]]
  /\ ctx \in Contexts
  /\ abilities = [ctx |-> 1]
  /\ boundResult = NoBound
  /\ checkLog = <<>>
  /\ boundCalls = 0
  /\ context \in ContextObjects
  /\ enhanced = [k \in AbilityKeys |-> Absent]
  /\ TypesIdle

\* const enhanced = withAbility(ctx)
WithAbility ==
  /\ pc = "idle"
  /\ pc' = "enhanced"
  /\ enhanced' = withAbility(ctx, context)
  /\ abilities' = withContext(enhanced'["can"].value.id)
  /\ UNCHANGED <<permissions, kind, status, value, error, calls, idx, clock,
                 startedAt, awaitedAt, throwVars, filterVars, explainVars,
                 world, ctx, boundResult, checkLog, boundCalls, context, typeVars>>

NextAbility ==
  \/ WithAbility
  \/ pc # "idle" /\ BoundCan
  \/ pc # "idle" /\ BoundAuthorize
  \/ pc # "idle" /\ BoundFilter

SpecAbility == InitAbility /\ [][NextAbility]_vars

\* ----------------------------------------- resource type of a composite
\* Resource types of units: none, Post, Comment (a Post with a postId) and
\* User; never is the empty type.
ResourceTypes == {"undefined", "Post", "Comment", "User"}

\* `A extends B` of a conditional type: A is assignable to B.
extends(a, b) ==
  a = b \/ a = "never" \/ (a = "Comment" /\ b = "Post")

RECURSIVE ValidateSameResource(_, _)
\* types.ts 39-46
ValidateSameResource(T, Expected) ==
  IF T = <<>> THEN Expected
  ELSE IF extends(Head(T), "undefined") THEN ValidateSameResource(Tail(T), Expected)
  ELSE IF extends(Head(T), Expected) THEN ValidateSameResource(Tail(T), Expected)
  ELSE "never"

RECURSIVE FirstNonUndefined(_)
\* types.ts 47-53
FirstNonUndefined(T) ==
  IF T = <<>> THEN "undefined"
  ELSE IF extends(Head(T), "undefined") THEN FirstNonUndefined(Tail(T))
  ELSE IF extends(ValidateSameResource(Tail(T), Head(T)), "never") THEN "never"
  ELSE Head(T)

\* and.ts 80-83 (or.ts, andParallel.ts, orParallel.ts alike): the overload
\* takes Permission<TContext, TResourceN> for unconstrained TResourceN, so
\* it accepts every list of units, and returns
\* Permission<TContext, FirstNonUndefined<[TResource1, ...]>>.
operatorType(T) ==
  [error |-> FALSE, resourceType |-> FirstNonUndefined(T)]

InitTypes ==
  /\ permissions = <<(<<>>)>>
  /\ kind = <<"T">>
  /\ pc = "idle"
  /\ status = <<"idle">>
  /\ value = <<FALSE>>
  /\ error = <<0>>
  /\ calls = <<0>>
  /\ idx = <<0>>
  /\ clock = 0
  /\ startedAt = <<0>>
  /\ awaitedAt = <<0>>
  /\ unit = [name |-> <<"isAdmin">>, bound |-> FALSE,
             check |-> [r \in ResourceValues |-> "T"]]
  /\ resource = JsUndefined
  /\ override = JsUndefined
  /\ ThrowIdle
  /\ FilterIdle
  /\ ExplainIdle
  /\ BindIdle
  /\ AbilityIdle
  /\ \E n \in 1..MaxChildren : childTypes \in [1..n -> ResourceTypes]
  /\ composed = NoComposite

\* const composite = and(p1, ..., pn), the units having types childTypes
Compose ==
  /\ pc = "idle"
  /\ pc' = "typed"
  /\ composed' = operatorType(childTypes)
  /\ UNCHANGED <<permissions, kind, status, value, error, calls, idx, clock,
                 startedAt, awaitedAt, throwVars, filterVars, explainVars,
                 bindVars, abilityVars, childTypes>>

NextTypes ==
  Compose

SpecTypes == InitTypes /\ [][NextTypes]_vars

\* -------------------------------------------------- interleaved evaluations
\* Two units outer(inner(P), Q) over the same leaves P and Q, evaluated by
\* two calls in flight together: the same unit twice (same outer operator)
\* or two units that share inner(P) and Q.  Each call has its own frame,
\* the nodes 1..4 and 5..8.
InterleavedPermissions ==
  <<(<<2, 4>>), (<<3>>), (<<>>), (<<>>), (<<6, 8>>), (<<7>>), (<<>>), (<<>>)>>

InterleavedKinds(outer1, outer2, inner, p, q) ==
  <<outer1, inner, p, q, outer2, inner, p, q>>

InitInterleave ==
  /\ permissions = InterleavedPermissions
  /\ \E outer1, outer2 \in {"and", "orParallel"} : \E inner \in {"not", "and"} :
     \E p, q \in {"T", "F", "reject"} :
       kind = InterleavedKinds(outer1, outer2, inner, p, q)
  /\ pc = "idle"
  /\ status = [i \in DOMAIN permissions |-> "idle"]
  /\ value = [i \in DOMAIN permissions |-> FALSE]
  /\ error = [i \in DOMAIN permissions |-> 0]
  /\ calls = [i \in DOMAIN permissions |-> 0]
  /\ idx = [i \in DOMAIN permissions |-> 0]
  /\ clock = 0
  /\ startedAt = [i \in DOMAIN permissions |-> 0]
  /\ awaitedAt = [i \in DOMAIN permissions |-> 0]
  /\ unit = [name |-> <<"isAdmin">>, bound |-> FALSE,
             check |-> [r \in ResourceValues |-> "T"]]
  /\ resource = JsUndefined
  /\ override = JsUndefined
  /\ ThrowIdle
  /\ FilterIdle
  /\ ExplainIdle
  /\ BindIdle
  /\ AbilityIdle
  /\ TypesIdle

\* operatorPermission.ts 101-116: explain(ctx, r, resource) calls
\* r.check(ctx, resource, (detail) => details.push(detail)) with an array
\* `details` created by this call.
ExplainUnit(r) ==
  /\ r \in Roots
  /\ status[r] = "idle"
  /\ pc' = "called"
  /\ Commit(Invoke([Cur EXCEPT !.onExplain[r] = TRUE, !.reported[r] = <<>>], r))

RECURSIVE Concat(_, _)
\* The arrays seqs[r], r in S, one after the other.
Concat(seqs, S) ==
  IF S = {} THEN <<>>
  ELSE LET m == CHOOSE x \in S : \A y \in S : x <= y
       IN seqs[m] \o Concat(seqs, S \ {m})

\* Slip: `details` is one array shared by all explain calls.
explainDetailsShared(r) ==
  Concat(reported, Roots)

\* operatorPermission.ts 106, 112: const details = [] in the call, filled
\* by this call's callback only.
explainDetails(r) ==
  reported[r]

\* operatorPermission.ts 117-122: the node explain(ctx, r) resolves with.
explainOf(r) ==
  [name |-> r, result |-> value[r], operator |-> "", details |-> explainDetails(r)]

NextInterleave ==
  \/ \E r \in Nodes : CallUnit(r)
  \/ \E r \in Nodes : ExplainUnit(r)
  \/ \E n \in Nodes : Settle(n)
  \/ \E n \in Nodes : ResumeAnd(n)
  \/ \E n \in Nodes : ResumePromiseAll(n)
  \/ \E n \in Nodes : ResumeNot(n)

SpecInterleave == InitInterleave /\ [][NextInterleave]_vars

\* ---------------------------------------------------------------- names
\* The name a leaf was created with.
leafName(n) ==
  <<"p" \o ToString(n)>>

\* not.ts 16: `NOT ${p.name}`
notName(name) ==
  <<"NOT ">> \o name

\* The operator keyword of a composite.
operatorOf(k) ==
  CASE k \in {"and", "andParallel"} -> "AND"
    [] k \in {"or", "orParallel"} -> "OR"
    [] k = "not" -> "NOT"

RECURSIVE nameOf(_, _)
\* The name of unit n.  and.ts, or.ts, andParallel.ts and orParallel.ts name
\* the composite `(${names.join(' AND ' | ' OR ')})`; not.ts names it with
\* notName, and the not built on operatorPermission (viaOperator) with
\* operatorPermission('NOT', [p], ...).
nameOf(n, viaOperator) ==
  LET ps == permissions[n]
      names == [i \in DOMAIN ps |-> nameOf(ps[i], viaOperator)]
  IN IF kind[n] \in LeafKinds THEN leafName(n)
     ELSE IF kind[n] = "not" /\ ~viaOperator THEN notName(names[1])
     ELSE operatorName(operatorOf(kind[n]), names)

\* ------------------------------------------------------ fair scheduling
\* permission.ts 88-99: await unit.orThrow(ctx) calls the unit itself,
\* `const allowed = await fn(ctx, ...)`.
OrThrowUnit ==
  /\ pc = "idle"
  /\ kind[Root] # "filter"
  /\ pc' = "orThrow"
  /\ Commit(Invoke(Cur, Root))

\* permission.ts 99-115: orThrow resumes once fn has settled: it rejects
\* with the fault of fn, throws ForbiddenError on false, returns on true.
ResumeOrThrow ==
  /\ pc = "orThrow"
  /\ status[Root] \in Settled
  /\ outcome = NoOutcome
  /\ outcome' = [op |-> "orThrow",
                 state |-> IF status[Root] = "resolved" /\ value[Root]
                           THEN "resolved" ELSE "rejected",
                 thrown |-> IF status[Root] = "rejected" THEN checkFault
                            ELSE IF value[Root] THEN JsUndefined
                            ELSE ForbiddenError(deniedMessage(nameOf(Root, TRUE)))]
  /\ UNCHANGED <<permissions, kind, engineVars, unit, resource, override,
                 factoryCalls, checkedWith, filterVars, explainVars, bindVars,
                 abilityVars, typeVars>>

InitFair ==
  \/ InitOfSize(MaxFairNodes)
  \/ InitFilter

NextFair ==
  \/ kind[Root] # "filter" /\ NextExplain
  \/ OrThrowUnit
  \/ ResumeOrThrow
  \/ kind[Root] = "filter" /\ NextFilter

\* What the event loop does on its own: a pending check settles, a
\* suspended async function whose awaited promise has settled resumes.
Steps ==
  \/ \E n \in Nodes : Settle(n)
  \/ \E n \in Nodes : ResumeAnd(n)
  \/ \E n \in Nodes : ResumePromiseAll(n)
  \/ \E n \in Nodes : ResumeNot(n)
  \/ \E n \in Nodes : ResumeFilter(n)
  \/ \E n \in Nodes : ExplainValue(n)
  \/ \E n \in Nodes : ExplainChildren(n)
  \/ ResumeOrThrow

\* Every leaf check that is invoked settles and the event loop runs every
\* continuation that is ready; when the caller makes its calls is free.
SpecFair == InitFair /\ [][NextFair]_vars /\ WF_vars(Steps)

\* Plain calls and filter calls only, under the same scheduling.
NextFairPlain ==
  \/ kind[Root] # "filter" /\ Next
  \/ kind[Root] = "filter" /\ NextFilter

SpecFairPlain == InitFair /\ [][NextFairPlain]_vars /\ WF_vars(Steps)

TypeOK ==
  /\ status \in [Nodes -> {"idle", "pending"} \cup Settled]
  /\ \A n \in Nodes : calls[n] <= 1

\* ------------------------------------------------------------- properties
\* The units below n (n included).
RECURSIVE Subtree(_)
Subtree(n) ==
  {n} \cup UNION {Subtree(permissions[n][i]) : i \in DOMAIN permissions[n]}

\* No check below n throws or rejects.
NoFault(n) ==
  \A m \in Subtree(n) : kind[m] \notin {"reject", "throw"}

\* The propositional value of the formula the unit n stands for.
RECURSIVE Truth(_)
Truth(n) ==
  LET ps == permissions[n]
  IN CASE kind[n] \in LeafKinds -> kind[n] = "T"
       [] kind[n] \in {"and", "andParallel"} -> \A i \in DOMAIN ps : Truth(ps[i])
       [] kind[n] \in {"or", "orParallel"} -> \E i \in DOMAIN ps : Truth(ps[i])
       [] kind[n] = "not" -> ~Truth(ps[1])

\* C1: over children that do not fault, and(...) never rejects and resolves
\* to true exactly when every child evaluates to true; andParallel(...)
\* resolves to that same boolean.
C1_AndIsConjunction ==
  \A n \in Nodes :
    (kind[n] \in {"and", "andParallel"} /\ NoFault(n)) =>
      /\ status[n] # "rejected"
      /\ status[n] = "resolved" =>
           (value[n] <=> \A i \in DOMAIN permissions[n] : Truth(permissions[n][i]))

\* An and over two or more children has resolved to false although its
\* first child is true, and an andParallel exists in the same state space.
C1_Witness ==
  \E n \in Nodes :
    /\ kind[n] = "and" /\ NoFault(n) /\ Len(permissions[n]) >= 2
    /\ status[n] = "resolved" /\ ~value[n]
    /\ Truth(permissions[n][1])

\* C2: over children that do not fault, or(...) never rejects and resolves
\* to true exactly when at least one child evaluates to true; orParallel(...)
\* resolves to that same boolean.
C2_OrIsDisjunction ==
  \A n \in Nodes :
    (kind[n] \in {"or", "orParallel"} /\ NoFault(n)) =>
      /\ status[n] # "rejected"
      /\ status[n] = "resolved" =>
           (value[n] <=> \E i \in DOMAIN permissions[n] : Truth(permissions[n][i]))

\* An orParallel over two or more children has resolved to true although
\* its first child is false.
C2_Witness ==
  \E n \in Nodes :
    /\ kind[n] = "orParallel" /\ NoFault(n) /\ Len(permissions[n]) >= 2
    /\ status[n] = "resolved" /\ value[n]
    /\ ~Truth(permissions[n][1])

\* C3: once a child of a sequential and has resolved to false, no later
\* child's check is ever invoked, every child up to it has been invoked
\* exactly once (the earlier ones resolved to true), and the and, when it
\* settles, resolves to false.
C3_AndShortCircuit ==
  \A n \in Nodes :
    kind[n] = "and" =>
      \A i \in DOMAIN permissions[n] :
        LET ps == permissions[n]
        IN (status[ps[i]] = "resolved" /\ ~value[ps[i]]) =>
             /\ \A j \in DOMAIN ps : j > i => calls[ps[j]] = 0 /\ status[ps[j]] = "idle"
             /\ \A j \in DOMAIN ps : j <= i => calls[ps[j]] = 1
             /\ \A j \in DOMAIN ps : j < i => status[ps[j]] = "resolved" /\ value[ps[j]]
             /\ status[n] \in Settled => (status[n] = "resolved" /\ ~value[n])

\* An and over three children has returned false at its second child.
C3_Witness ==
  \E n \in Nodes :
    /\ kind[n] = "and" /\ Len(permissions[n]) >= 3
    /\ status[n] = "resolved" /\ ~value[n]
    /\ status[permissions[n][2]] = "resolved" /\ ~value[permissions[n][2]]
    /\ calls[permissions[n][1]] = 1 /\ calls[permissions[n][3]] = 0

\* C4: or is sequential: once a child of or has resolved to true, no later
\* child's check has been invoked.
C4_OrSequential ==
  \A n \in Nodes :
    kind[n] = "or" =>
      \A i \in DOMAIN permissions[n] :
        LET ps == permissions[n]
        IN (status[ps[i]] = "resolved" /\ value[ps[i]]) =>
             \A j \in DOMAIN ps : j > i => calls[ps[j]] = 0

\* C5: in a sequential and, a step that invokes the check of child k+1 is
\* taken only when child k has already resolved, whatever the order in which
\* pending checks settle and whether the children are leaves or composites.
C5_AndOneAtATime ==
  [][\A n \in Nodes :
       kind[n] = "and" =>
         \A k \in DOMAIN permissions[n] :
           (k > 1 /\ calls'[permissions[n][k]] > calls[permissions[n][k]]) =>
             status[permissions[n][k - 1]] = "resolved"]_vars

\* An and whose first child is a composite has gone on to invoke its
\* second child.
C5_Witness ==
  \E n \in Nodes :
    /\ kind[n] = "and" /\ Len(permissions[n]) >= 2
    /\ kind[permissions[n][1]] \in OperatorKinds
    /\ calls[permissions[n][2]] = 1

\* C6: whenever orParallel / andParallel has been invoked, each of its
\* children has been invoked exactly once, whatever the children return.
C6_ParallelCallsEachChildOnce ==
  \A n \in Nodes :
    kind[n] \in ParallelKinds =>
      /\ calls[n] <= 1
      /\ \A i \in DOMAIN permissions[n] : calls[permissions[n][i]] = calls[n]

\* An orParallel whose first child already resolved to true has invoked
\* its second child all the same, and has settled.
C6_Witness ==
  \E n \in Nodes :
    /\ kind[n] = "orParallel" /\ Len(permissions[n]) >= 2
    /\ status[permissions[n][1]] = "resolved" /\ value[permissions[n][1]]
    /\ calls[permissions[n][2]] = 1
    /\ status[n] \in Settled

\* C7: a parallel operator that has been invoked has invoked every child,
\* in input order, after its own invocation and before its first await.
C7_ParallelStartsAllBeforeAwait ==
  \A n \in Nodes :
    (kind[n] \in ParallelKinds /\ startedAt[n] > 0) =>
      LET ps == permissions[n]
      IN /\ awaitedAt[n] > 0
         /\ \A i \in DOMAIN ps :
              /\ startedAt[ps[i]] > startedAt[n]
              /\ startedAt[ps[i]] < awaitedAt[n]
              /\ i > 1 => startedAt[ps[i - 1]] < startedAt[ps[i]]

\* A parallel operator is suspended with two or more children pending
\* together.
C7_Witness ==
  \E n \in Nodes :
    /\ kind[n] \in ParallelKinds /\ Len(permissions[n]) >= 2
    /\ status[n] = "pending"
    /\ \A i \in DOMAIN permissions[n] : status[permissions[n][i]] = "pending"

\* C8 as stated: a parallel operator has settled (with a value or with a
\* rejection) only when every child has settled.
C8_SettlesAfterAllChildren ==
  \A n \in Nodes :
    (kind[n] \in ParallelKinds /\ status[n] \in Settled) =>
      \A i \in DOMAIN permissions[n] : status[permissions[n][i]] \in Settled

\* C8 amended: a parallel operator has resolved to a boolean only when
\* every child has resolved; it has rejected only when some child has
\* rejected (the other children may still be pending).
C8_ValueAfterAllChildren ==
  \A n \in Nodes :
    kind[n] \in ParallelKinds =>
      /\ status[n] = "resolved" =>
           \A i \in DOMAIN permissions[n] : status[permissions[n][i]] = "resolved"
      /\ status[n] = "rejected" =>
           \E i \in DOMAIN permissions[n] : status[permissions[n][i]] = "rejected"

\* An andParallel over two or more children has resolved to false, its
\* first child being false, with every child resolved.
C8_Witness ==
  \E n \in Nodes :
    /\ kind[n] = "andParallel" /\ Len(permissions[n]) >= 2
    /\ status[n] = "resolved" /\ ~value[n]
    /\ ~value[permissions[n][1]]
    /\ \A i \in DOMAIN permissions[n] : status[permissions[n][i]] = "resolved"

\* What the unit evaluates to on the resource the caller passed.
Evaluates == unit.check[resource]

\* C9: orThrow / authorize without override resolves with no value exactly
\* when the unit evaluates to true, and when the unit evaluates to false it
\* rejects with a ForbiddenError whose message contains the unit's name.
C9_OrThrowIffAllowed ==
  (pc = "done" /\ override = JsUndefined) =>
    /\ (Evaluates = "T") <=> (outcome.state = "resolved" /\ outcome.thrown = JsUndefined)
    /\ Evaluates = "F" =>
         /\ outcome.state = "rejected"
         /\ outcome.thrown.cls = "ForbiddenError"
         /\ contains(outcome.thrown.str, unit.name)

\* C10: on denial with an override, a string gives a ForbiddenError with
\* that string as message, an Error instance is thrown itself, a factory is
\* called once and its return value thrown; on success no factory is called.
C10_OverrideOnDenial ==
  (pc = "done" /\ override # JsUndefined) =>
    /\ Evaluates = "F" =>
         /\ outcome.state = "rejected"
         /\ override.type = "string" => outcome.thrown = ForbiddenError(override.str)
         /\ instanceofError(override) => outcome.thrown = override
         /\ override.type = "function" =>
              (factoryCalls = 1 /\ outcome.thrown = callFactory(override))
    /\ Evaluates = "T" => factoryCalls = 0
\* --------------------------------------------------------------- filter
\* The positions of the candidate array whose unit evaluation is true, by the
\* propositional value of the unit on that candidate.
AllowedPositions ==
  {i \in DOMAIN resources : Truth(permissions[Root][i])}

\* The j-th smallest element of a set of positions.
NthOf(P, j) ==
  CHOOSE i \in P : Cardinality({k \in P : k <= i}) = j

\* C12: filter(ctx, [r1..rn]) resolves with exactly the candidates on which
\* the unit evaluates to true, in their original relative order, a candidate
\* that occurs twice being kept once per position; the empty array gives the
\* empty array.
C12_FilterKeepsAllowed ==
  (pc = "filter" /\ status[Root] = "resolved") =>
    /\ Len(kept) = Cardinality(AllowedPositions)
    /\ \A j \in DOMAIN kept : kept[j] = resources[NthOf(AllowedPositions, j)]
    /\ (resources = <<>> => kept = <<>>)

\* A resolved filter that kept a candidate and dropped another one.
C12_Witness ==
  /\ pc = "filter"
  /\ status[Root] = "resolved"
  /\ Len(kept) >= 1
  /\ Len(kept) < Len(resources)

\* C13: filter calls the unit on every candidate before it awaits any of
\* the evaluations, calls it exactly once per candidate, and resolves with
\* the kept candidates in input order whatever the order in which the
\* evaluations completed.
C13_FilterConcurrentOrdered ==
  LET ps == permissions[Root]
      K == {i \in DOMAIN ps : value[ps[i]]}
  IN pc = "filter" =>
       /\ \A i \in DOMAIN ps : calls[ps[i]] = 1
       /\ awaitedAt[Root] > 0
       /\ \A i \in DOMAIN ps :
            startedAt[ps[i]] > 0 /\ startedAt[ps[i]] < awaitedAt[Root]
       /\ status[Root] = "resolved" =>
            /\ Len(kept) = Cardinality(K)
            /\ \A j \in DOMAIN kept : kept[j] = resources[NthOf(K, j)]

\* Two distinct candidates are both allowed and the evaluation of the
\* second one has completed while that of the first one is still pending.
C13_Witness ==
  /\ pc = "filter"
  /\ Len(resources) = 2
  /\ resources[1] # resources[2]
  /\ Truth(permissions[Root][1])
  /\ status[permissions[Root][1]] = "pending"
  /\ status[permissions[Root][2]] = "resolved"
  /\ value[permissions[Root][2]]

\* ----------------------------------------------------------- boolean laws
\* The unit evaluated next to the unit at node 1.
Other ==
  CHOOSE r \in Roots : r # Root

\* C17: De Morgan. not(and(A, B)) and or(not(A), not(B)) resolve with the
\* same boolean, and so do not(or(A, B)) and and(not(A), not(B)), for every
\* truth assignment to A and B.
C17_DeMorgan ==
  (permissions = DeMorganPermissions
     /\ status[Root] \in Settled /\ status[Other] \in Settled) =>
    /\ status[Root] = "resolved"
    /\ status[Other] = "resolved"
    /\ value[Root] = value[Other]

\* Both sides of a De Morgan pair have resolved with true on an assignment
\* where A and B differ.
C17_Witness ==
  /\ permissions = DeMorganPermissions
  /\ kind[3] # kind[4]
  /\ status[Root] = "resolved"
  /\ status[Other] = "resolved"
  /\ value[Root]

\* C18: double negation. not(not(P)) resolves with the boolean P resolves
\* with.
C18_DoubleNegation ==
  (kind[Root] = "not" /\ kind[permissions[Root][1]] = "not"
     /\ status[Root] \in Settled /\ status[Other] \in Settled) =>
    /\ status[Root] = "resolved"
    /\ status[Other] = "resolved"
    /\ value[Root] = value[Other]

\* not(not(P)) and P have both resolved with true.
C18_Witness ==
  /\ kind[Root] = "not"
  /\ kind[permissions[Root][1]] = "not"
  /\ status[Root] = "resolved"
  /\ status[Other] = "resolved"
  /\ value[Other]

\* ------------------------------------------------------------- nesting
\* Number of levels of the tree below n, n included.
RECURSIVE Height(_)
Height(n) ==
  IF permissions[n] = <<>> THEN 1
  ELSE 1 + CHOOSE h \in {Height(permissions[n][i]) : i \in DOMAIN permissions[n]} :
             \A i \in DOMAIN permissions[n] : Height(permissions[n][i]) <= h

\* C19: a tree of and / or / not / andParallel / orParallel at least three
\* levels deep whose leaves neither throw nor reject never rejects and
\* resolves with the value of the propositional formula it denotes.
C19_NestedTreeIsFormula ==
  \A n \in Nodes :
    (Height(n) >= 3 /\ NoFault(n)) =>
      /\ status[n] # "rejected"
      /\ status[n] = "resolved" => value[n] = Truth(n)

\* A tree of three levels or more with a negation and a false leaf in it
\* has resolved with true.
C19_Witness ==
  /\ Height(Root) >= 3
  /\ NoFault(Root)
  /\ \E m \in Nodes : kind[m] = "not"
  /\ \E m \in Nodes : kind[m] = "F"
  /\ status[Root] = "resolved"
  /\ value[Root]

\* -------------------------------------------------------------- explain
\* The nodes of an explanation, the top one included.
RECURSIVE NodesOf(_)
NodesOf(d) ==
  {d} \cup UNION {NodesOf(d.details[i]) : i \in DOMAIN d.details}

\* Every node of the explanation d shows the result the plain call gave
\* the unit the node names.
AgreesWithPlain(d) ==
  \A e \in NodesOf(d) :
    /\ plain.status[e.name] = "resolved"
    /\ e.result = plain.value[e.name]

\* C14: the node explain resolves with has the result the plain call on the
\* same inputs resolved with, and every nested node has the plain result of
\* the unit it names; this for explain(ctx, unit) and for unit.explain(ctx).
C14_ExplainMatchesPlain ==
  /\ (pc = "explain" /\ status[Root] = "resolved") => AgreesWithPlain(explain)
  /\ (pc = "unitExplain" /\ xstatus[Root] = "resolved") => AgreesWithPlain(xresult[Root])

\* unit.explain has resolved on a composite with two children of different
\* results.
C14_Witness ==
  /\ pc = "unitExplain"
  /\ xstatus[Root] = "resolved"
  /\ Len(xresult[Root].details) >= 2
  /\ xresult[Root].details[1].result # xresult[Root].details[2].result

\* The explain call under way has settled and nothing it started is pending.
ExplainDone ==
  /\ Quiescent
  /\ \/ pc = "explain" /\ status[Root] \in Settled
     \/ pc = "unitExplain" /\ xstatus[Root] \in Settled

\* The children of n whose check the explain call invoked, in child order.
EvaluatedChildren(n) ==
  LET evaluated(c) == calls[c] > plain.calls[c]
  IN SelectSeq(permissions[n], evaluated)

\* C15: the node explain resolves with on a composite holds, in its details
\* (children) array, exactly one node per child of the composite that was
\* evaluated, in child order: no node for a short-circuited child, a node
\* for every evaluated one.
C15_DetailsPerEvaluatedChild ==
  LET d == IF pc = "explain" THEN explain ELSE xresult[Root]
  IN (ExplainDone /\ kind[Root] \in OperatorKinds
        /\ (IF pc = "explain" THEN status[Root] ELSE xstatus[Root]) = "resolved") =>
       [i \in DOMAIN d.details |-> d.details[i].name] = EvaluatedChildren(Root)

\* C16: explain only observes. The explain call invokes the checks the plain
\* call invoked, each the same number of times, leaves the same children
\* uninvoked, and starts the children of every composite in the same order.
C16_ExplainOnlyObserves ==
  ExplainDone =>
    /\ \A m \in Nodes : calls[m] - plain.calls[m] = plain.calls[m]
    /\ \A n \in Nodes : \A i, j \in DOMAIN permissions[n] :
         LET a == permissions[n][i]
             b == permissions[n][j]
         IN (plain.calls[a] > 0 /\ plain.calls[b] > 0) =>
              ((startedAt[a] < startedAt[b]) = (plain.startedAt[a] < plain.startedAt[b]))

Faulted(n) ==
  {m \in Subtree(n) : kind[m] \in {"reject", "throw"} /\ status[m] = "rejected"}

FirstFalse(n) ==
  LET F == {i \in DOMAIN permissions[n] : ~Truth(permissions[n][i])}
  IN IF F = {} THEN 0 ELSE CHOOSE i \in F : \A j \in F : i <= j

\* C27: when child i is the first child of a sequential and to evaluate to
\* false (the children up to i do not fault), the and never rejects and
\* resolves to false, and no later child is invoked, even when a later
\* child's check would throw or reject.
C27_FalseBeforeFault ==
  \A n \in Nodes :
    LET ps == permissions[n]
        i == FirstFalse(n)
    IN (kind[n] = "and" /\ i > 0 /\ \A j \in 1..i : NoFault(ps[j])) =>
         /\ status[n] # "rejected"
         /\ status[n] = "resolved" => ~value[n]
         /\ \A j \in DOMAIN ps : j > i => calls[ps[j]] = 0

\* An and has resolved to false at a child that is followed by a child
\* whose check throws or rejects.
C27_Witness ==
  \E n \in Nodes :
    LET ps == permissions[n]
        i == FirstFalse(n)
    IN /\ kind[n] = "and" /\ i > 0 /\ i < Len(ps)
       /\ \A j \in 1..i : NoFault(ps[j])
       /\ kind[ps[i + 1]] \in {"reject", "throw"}
       /\ status[ps[i]] = "resolved"
       /\ status[n] = "resolved" /\ ~value[n]


\* C29: whenever or (Promise.all over permissions.map(p => p.check(...)))
\* has been invoked, every child's check has been invoked exactly once,
\* also when an earlier child's check throws synchronously.
C29_OrCallsEachChildOnce ==
  \A n \in Nodes :
    kind[n] = "or" =>
      /\ calls[n] <= 1
      /\ \A i \in DOMAIN permissions[n] : calls[permissions[n][i]] = calls[n]


\* C26: unit.orThrow(ctx, r) invokes the check with exactly the resource r
\* that the direct call unit(ctx, r) passes (args[0]), for every resource
\* value, strings, functions and Error instances included.
C26_OrThrowSameResource ==
  (pc = "done" /\ outcome.op = "orThrow") => checkedWith = <<resource>>


\* The unit n has been invoked in the evaluation in progress (the explain
\* call when there is one, else the plain call).
EvaluatedNow(n) ==
  IF pc = "explain" THEN startedAt[n] > plain.clock ELSE calls[n] >= 1

\* The children of n whose check n has invoked in this evaluation.
Checked(n) ==
  IF kind[n] = "and" THEN SubSeq(permissions[n], 1, idx[n]) ELSE permissions[n]

\* C28 as stated: an and/not composite that has settled has invoked its
\* explain callback exactly once when one was supplied and never when none
\* was supplied.
C28_CallbackOncePerEvaluation ==
  \A n \in Nodes :
    (kind[n] \in {"and", "not"} /\ EvaluatedNow(n) /\ status[n] \in Settled) =>
      Len(reported[n]) = IF onExplain[n] THEN 1 ELSE 0

\* C28, amended: an and/not composite invokes its explain callback exactly
\* once per evaluation that resolves, at the moment it resolves, when every
\* child it has invoked has resolved; it invokes none while it is pending,
\* none when it rejects, and none when no callback was supplied.
C28_CallbackOnceWhenResolved ==
  \A n \in Nodes :
    (kind[n] \in {"and", "not"} /\ EvaluatedNow(n)) =>
      /\ Len(reported[n]) = IF onExplain[n] /\ status[n] = "resolved" THEN 1 ELSE 0
      /\ reported[n] # <<>> =>
           /\ Len(reported[n][1].details) = Len(Checked(n))
           /\ \A i \in DOMAIN Checked(n) :
                /\ status[Checked(n)[i]] = "resolved"
                /\ startedAt[Checked(n)[i]] > startedAt[n]

\* An explained and has resolved and reported once, after a nested not or
\* and beneath it reported once to its own collector.
C28_Witness ==
  /\ pc = "explain"
  /\ kind[Root] = "and" /\ status[Root] = "resolved"
  /\ Len(reported[Root]) = 1
  /\ \E i \in DOMAIN permissions[Root] :
       LET c == permissions[Root][i]
       IN /\ kind[c] \in {"and", "not"}
          /\ onExplain[c] /\ Len(reported[c]) = 1


\* C22: the name of and/andParallel and of or/orParallel is the child names
\* joined by ' AND ' / ' OR ' inside parentheses, and the name of not(P) is
\* 'NOT ' followed by the name of P, for either construction of not.
C22_CompositeNames ==
  \A n \in Nodes : \A viaOperator \in BOOLEAN :
    LET ps == permissions[n]
        names == [i \in DOMAIN ps |-> nameOf(ps[i], viaOperator)]
        name == nameOf(n, viaOperator)
    IN /\ kind[n] \in {"and", "andParallel"} =>
            name = <<"(">> \o join(names, " AND ") \o <<")">>
       /\ kind[n] \in {"or", "orParallel"} =>
            name = <<"(">> \o join(names, " OR ") \o <<")">>
       /\ kind[n] = "not" => name = <<"NOT ">> \o names[1]


\* The resource types other than undefined among the children.
NonUndefined ==
  {childTypes[i] : i \in DOMAIN childTypes} \ {"undefined"}

\* C23: a composite is resource-less when every child is, has the single
\* resource type when the children mix resource-less units and one resource
\* type, and is a construction-time error whenever two children have
\* different non-undefined resource types.
C23_ResourceTypeUnifies ==
  pc = "typed" =>
    /\ NonUndefined = {} =>
         (~composed.error /\ composed.resourceType = "undefined")
    /\ Cardinality(NonUndefined) = 1 =>
         (~composed.error /\ composed.resourceType \in NonUndefined)
    /\ Cardinality(NonUndefined) >= 2 => composed.error

\* C21 as stated: in the object withAbility(ctx) returned, every property
\* of ctx is present with the value it has in ctx, and can, authorize and
\* filter are operations that evaluate against ctx.
C21_AbilityKeepsContext ==
  pc # "idle" =>
    /\ \A k \in AbilityKeys :
         context[k] # Absent =>
           (enhanced[k] # Absent /\ enhanced[k].value = context[k].value)
    /\ \A k \in Methods :
         enhanced[k].value.type = "function" /\ enhanced[k].value.id = ctx
    /\ \A i \in DOMAIN checkLog : checkLog[i].ctx = ctx

\* C21, amended: every own enumerable property of ctx whose key is not can,
\* authorize or filter is present with the value it has in ctx; can,
\* authorize and filter are operations that evaluate against ctx.
C21_AbilityKeepsOwnProperties ==
  pc # "idle" =>
    /\ \A k \in AbilityKeys \ Methods :
         (context[k].where = "own" /\ context[k].enumerable) =>
           enhanced[k] = context[k]
    /\ \A k \in Methods :
         enhanced[k].value.type = "function" /\ enhanced[k].value.id = ctx
    /\ \A i \in DOMAIN checkLog : checkLog[i].ctx = ctx

\* A context with an own enumerable property has been enhanced and a call
\* through the enhanced object has run the check.
C21_Witness ==
  /\ pc = "bound"
  /\ context["user"].where = "own" /\ context["user"].enumerable
  /\ enhanced["user"] = context["user"]
  /\ checkLog # <<>>


RECURSIVE Shifted(_, _)
\* The explanation d with every unit renamed by the offset k.
Shifted(d, k) ==
  [name |-> d.name + k, result |-> d.result, operator |-> d.operator,
   details |-> [i \in DOMAIN d.details |-> Shifted(d.details[i], k)]]

\* C25: of two evaluations in flight together, plain or explain, of the
\* same unit or of units that share children, each settles as its own units
\* decide: it resolves to the value of its formula or rejects with a fault
\* of its own subtree, the trace of an explain names only units of its own
\* evaluation with the results they had there, a plain call collects
\* nothing, and two evaluations of the same unit that were both explained
\* give the same outcome and the same trace.
C25_InterleavedIndependent ==
  /\ \A r \in Roots :
       /\ status[r] = "resolved" => value[r] = Truth(r)
       /\ status[r] = "rejected" => (error[r] \in Subtree(r) /\ ~NoFault(r))
       /\ ~onExplain[r] => explainDetails(r) = <<>>
       /\ (onExplain[r] /\ status[r] = "resolved") =>
            \A e \in NodesOf(explainOf(r)) :
              /\ e.name \in Subtree(r)
              /\ status[e.name] = "resolved"
              /\ e.result = value[e.name]
  /\ (Cardinality(Roots) = 2 /\ kind[Root] = kind[Other]
        /\ status[Root] \in Settled /\ status[Other] \in Settled) =>
       /\ status[Root] = status[Other]
       /\ value[Root] = value[Other]
       /\ (onExplain[Root] /\ onExplain[Other]) =>
            Shifted(explainOf(Root), Other - Root) = explainOf(Other)

\* Two explain calls of the same and-unit were in flight together: the
\* second started while the first was pending, and both have resolved with
\* a trace.
C25_Witness ==
  /\ Cardinality(Roots) = 2
  /\ kind[Root] = "and" /\ kind[Other] = "and"
  /\ onExplain[Root] /\ onExplain[Other]
  /\ status[Root] = "resolved" /\ status[Other] = "resolved"
  /\ explainDetails(Root) # <<>> /\ explainDetails(Other) # <<>>
  /\ startedAt[Other] < startedAt[permissions[Root][2]]
  /\ startedAt[Root] < startedAt[Other]


\* The node numbers a tree or a filter call may use.
NodeSlots ==
  (1..MaxFairNodes) \cup (1..(1 + 3 * MaxCandidates))

\* n is a check started by a parallel operator or by filter.
StartedByParallel(n) ==
  /\ n \in Nodes
  /\ Caller(n) # 0
  /\ kind[Caller(n)] \in ParallelKinds \cup {"filter"}
  /\ status[n] = "pending"

\* C24: a check that a parallel operator or filter has started runs to
\* completion: while it is pending it eventually settles, also when its
\* caller has settled before it, with a value or with the fault of another
\* child.
C24_NoCancellation ==
  \A n \in NodeSlots :
    StartedByParallel(n) ~> (n \in Nodes /\ status[n] \in Settled)

\* A parallel operator or filter has rejected with the fault of one child
\* while another child it started is still pending and able to settle.
C24_Witness ==
  \E n \in Nodes :
    /\ StartedByParallel(n)
    /\ status[Caller(n)] = "rejected"
    /\ error[Caller(n)] # error[n]
    /\ ENABLED Settle(n)

\* C30: every evaluation of a finite tree settles: a pending call of the
\* root (direct call, explain with a callback, filter over the candidate
\* array) eventually resolves or rejects, and so do unit.explain and
\* unit.orThrow once called.
C30_EvaluationSettles ==
  /\ (status[Root] = "pending") ~> (status[Root] \in Settled)
  /\ (pc = "unitExplain") ~> (xstatus[Root] \in Settled)
  /\ (pc = "orThrow") ~> (outcome.state \in Settled)

\* An evaluation of a tree of three units, or a filter over two candidates,
\* has settled.
C30_Witness ==
  /\ Len(permissions) >= 3
  /\ status[Root] \in Settled
  /\ \A n \in Nodes : status[n] # "pending"
  /\ pc \in {"called", "explain", "filter", "unitExplain", "orThrow"}
  /\ pc = "orThrow" => outcome.state \in Settled
  /\ pc = "unitExplain" => xstatus[Root] \in Settled

====
